---------------------------- MODULE Spec2Model ----------------------------
(***************************************************************************)
(* ProposalCreator of chainercv/links/faster_rcnn/utils/proposal_creator.py *)
(* as a state machine.  One behaviour is one construction of the object     *)
(* followed by one call of __call__, taken statement group by statement     *)
(* group; pc is the position of the call inside the method body.            *)
(*                                                                          *)
(* Numbers.  Coordinates, sizes and scores are integers.  A threshold is a  *)
(* fraction <<numerator, denominator>>.  The last two components of a box   *)
(* delta, dw and dh, are counted in units of ln 2, so that exp(dw) is the   *)
(* power of two Exp2 below; anchors have sides that are multiples of 4, so  *)
(* every division of the decoder is exact.                                  *)
(*                                                                          *)
(* Arrays.  A 4-d array is a record [shape, data] with data in C order.     *)
(* Python indices start at 0, TLA+ sequences at 1: an index array of the    *)
(* code (keep, order) holds i+1 here where the code holds i.                *)
(***************************************************************************)
EXTENDS Integers, Sequences, FiniteSets, TLC

\* ------------------------------------------------------------- bounds
MaxR == 2
MaxBatch == 2
MaxA == 2
MaxH == 2
MaxW == 2

\* ------------------------------------------------------------ helpers
Range(s) == {s[i] : i \in DOMAIN s}

Min(a, b) == IF a <= b THEN a ELSE b

Max(a, b) == IF a >= b THEN a ELSE b

\* a[idx] for an index array idx (numpy fancy indexing, a[idx, :] for rows)
Take(a, idx) == [k \in 1..Len(idx) |-> a[idx[k]]]

\* a[:n] for n > 0
Prefix(a, n) == [k \in 1..Min(n, Len(a)) |-> a[k]]

\* a[::-1]
Reversed(a) == [k \in 1..Len(a) |-> a[Len(a) + 1 - k]]

\* np.where(mask)[0]: the indices at which mask holds, ascending
RECURSIVE Where(_, _)
Where(mask, k) ==
    IF k > Len(mask) THEN <<>>
    ELSE IF mask[k] THEN <<k>> \o Where(mask, k + 1)
    ELSE Where(mask, k + 1)

\* the permutations of 1..n, as sequences
Perms(n) == {p \in [1..n -> 1..n] : \A i, j \in 1..n : i # j => p[i] # p[j]}

\* score.argsort(): every index order that sorts score ascending.  numpy's
\* default sort is not stable, so the order among equal scores is any.
Argsort(score) ==
    {p \in Perms(Len(score)) :
        \A k \in 1..(Len(score) - 1) : score[p[k]] <= score[p[k + 1]]}

\* ------------------------------------------------------------- arrays
Size(shape) == shape[1] * shape[2] * shape[3] * shape[4]

\* the 0-based multi-index of the 0-based flat offset o under shape (C order)
Unravel(shape, o) ==
    << o \div (shape[2] * shape[3] * shape[4]),
       (o \div (shape[3] * shape[4])) % shape[2],
       (o \div shape[4]) % shape[3],
       o % shape[4] >>

\* arr[i0, i1, i2, i3], 0-based
At(arr, i0, i1, i2, i3) ==
    arr.data[((i0 * arr.shape[2] + i1) * arr.shape[3] + i2) * arr.shape[4] + i3 + 1]

\* arr[:, from:, :, :]
SliceChannels(arr, from) ==
    LET shape == <<arr.shape[1], arr.shape[2] - from, arr.shape[3], arr.shape[4]>>
    IN  [shape |-> shape,
         data  |-> [k \in 1..Size(shape) |->
                      LET ix == Unravel(shape, k - 1)
                      IN  At(arr, ix[1], ix[2] + from, ix[3], ix[4])]]

\* the array left as it is
Transpose0231_None(arr) == arr

\* arr.transpose((0, 2, 3, 1))
Transpose0231(arr) ==
    LET shape == <<arr.shape[1], arr.shape[3], arr.shape[4], arr.shape[2]>>
    IN  [shape |-> shape,
         data  |-> [k \in 1..Size(shape) |->
                      LET ix == Unravel(shape, k - 1)
                      IN  At(arr, ix[1], ix[4], ix[2], ix[3])]]

\* arr.reshape((-1, 4))
ReshapeRows4(arr) ==
    [i \in 1..(Len(arr.data) \div 4) |->
        <<arr.data[4 * i - 3], arr.data[4 * i - 2], arr.data[4 * i - 1], arr.data[4 * i]>>]

\* arr.reshape(-1)
ReshapeFlat(arr) == arr.data


\* ------------------------------------------------- bbox_regression_target_inv
\* exp(d) * x for d counted in units of ln 2
RECURSIVE Pow2(_)
Pow2(k) == IF k <= 0 THEN 1 ELSE 2 * Pow2(k - 1)

Exp2Times(d, x) == IF d >= 0 THEN x * Pow2(d) ELSE x \div Pow2(0 - d)

\* one anchor a = (x1, y1, x2, y2) moved by one delta d = (dx, dy, dw, dh)
DecodeBox(a, d) ==
    LET w_a == a[3] - a[1]
        h_a == a[4] - a[2]
        cx  == d[1] * w_a + (a[1] + w_a \div 2)
        cy  == d[2] * h_a + (a[2] + h_a \div 2)
        w   == Exp2Times(d[3], w_a)
        h   == Exp2Times(d[4], h_a)
    IN  <<cx - w \div 2, cy - h \div 2, cx + w \div 2, cy + h \div 2>>

bbox_regression_target_inv(anchor, bbox_deltas) ==
    [i \in 1..Len(bbox_deltas) |-> DecodeBox(anchor[i], bbox_deltas[i])]

\* ---------------------------------------------------- non_maximum_suppression
\* the length of the interval [lo, hi], empty when hi < lo
Side(lo, hi) == Max(0, hi - lo)

Area(b) == Side(b[1], b[3]) * Side(b[2], b[4])

Intersection(a, b) ==
    Side(Max(a[1], b[1]), Min(a[3], b[3])) * Side(Max(a[2], b[2]), Min(a[4], b[4]))

Union(a, b) == Area(a) + Area(b) - Intersection(a, b)

\* intersection over union >= thresh, thresh a fraction of positive
\* denominator.  The ratio of two boxes of empty union is 0/0, of which the
\* contract says nothing: empty is the answer given for such a pair.
Overlaps(a, b, thresh, empty) ==
    IF Union(a, b) = 0 THEN empty
    ELSE Intersection(a, b) * thresh[2] >= thresh[1] * Union(a, b)

\* the greedy pass over the boxes in the order ord: a box is selected unless it
\* overlaps an already selected one by thresh or more
RECURSIVE Greedy(_, _, _, _, _, _)
Greedy(bbox, thresh, empty, ord, k, selec) ==
    IF k > Len(ord) THEN selec
    ELSE IF \E s \in Range(selec) : Overlaps(bbox[s], bbox[ord[k]], thresh, empty)
         THEN Greedy(bbox, thresh, empty, ord, k + 1, selec)
         ELSE Greedy(bbox, thresh, empty, ord, k + 1, Append(selec, ord[k]))

\* every result the suppressor may return: one per descending order of score
\* and per answer for the pairs of empty union
non_maximum_suppression(bbox, thresh, score) ==
    {Greedy(bbox, thresh, empty, Reversed(p), 1, <<>>) :
        p \in Argsort(score), empty \in BOOLEAN}

\* ------------------------------------------------- ProposalCreator.__call__
\* lines 93-94
SelectPreNmsTopN(self, train) ==
    IF train THEN self.train_rpn_pre_nms_top_n ELSE self.test_rpn_pre_nms_top_n

\* lines 95-96
SelectPostNmsTopN(self, train) ==
    IF train THEN self.train_rpn_post_nms_top_n ELSE self.test_rpn_post_nms_top_n

\* only the score map's batch size looked at
BatchSizeIsOne_ScoreOnly(bbox_deltas, rpn_cls_prob) == rpn_cls_prob.shape[1] = 1

\* line 102: bbox_deltas.shape[0] == rpn_cls_prob.shape[0] == 1
BatchSizeIsOne(bbox_deltas, rpn_cls_prob) ==
    bbox_deltas.shape[1] = rpn_cls_prob.shape[1] /\ rpn_cls_prob.shape[1] = 1

\* line 107: shape[1] / 2 on integers, Python 2's division, which rounds down
NAnchor(rpn_cls_prob) == rpn_cls_prob.shape[2] \div 2

\* line 108
ForegroundScore(rpn_cls_prob) == SliceChannels(rpn_cls_prob, NAnchor(rpn_cls_prob))

\* line 112
RealignDeltas(bbox_deltas) == ReshapeRows4(Transpose0231(bbox_deltas))

\* line 113
RealignScore(score) == ReshapeFlat(Transpose0231(score))

\* clipped from below only
Clip_LowerOnly(v, lo, hi) == Max(v, lo)

\* np.clip(v, lo, hi)
Clip(v, lo, hi) == Min(Max(v, lo), hi)

\* lines 120-123: x to [0, img_size[0]], y to [0, img_size[1]]
ClipBox(b, img_size) ==
    <<Clip(b[1], 0, img_size[1]), Clip(b[2], 0, img_size[2]),
      Clip(b[3], 0, img_size[1]), Clip(b[4], 0, img_size[2])>>

ClipAll(proposal, img_size) ==
    [i \in 1..Len(proposal) |-> ClipBox(proposal[i], img_size)]

\* line 126
MinSize(self, scale) == self.rpn_min_size * scale

\* strictly larger than min_size
SizeKeep_Strict(proposal, min_size) ==
    Where([i \in 1..Len(proposal) |->
              (proposal[i][3] - proposal[i][1] > min_size)
              /\ (proposal[i][4] - proposal[i][2] > min_size)], 1)

\* lines 127-129
SizeKeep(proposal, min_size) ==
    Where([i \in 1..Len(proposal) |->
              (proposal[i][3] - proposal[i][1] >= min_size)
              /\ (proposal[i][4] - proposal[i][2] >= min_size)], 1)

\* the order not reversed
DescendingOrder_Ascending(p) == p

\* line 135: argsort()[::-1] of one ascending order p
DescendingOrder(p) == Reversed(p)

\* a budget of 0 taken as a budget
PreNmsTop_ZeroCuts(order, pre_nms_topN) ==
    IF pre_nms_topN >= 0 THEN Prefix(order, pre_nms_topN) ELSE order

\* lines 136-137
PreNmsTop(order, pre_nms_topN) ==
    IF pre_nms_topN > 0 THEN Prefix(order, pre_nms_topN) ELSE order

\* the device not asked for
TakesGpuPath_Unchecked(self, cuda_available) == self.use_gpu_nms

\* line 144
TakesGpuPath(self, cuda_available) == self.use_gpu_nms /\ cuda_available

\* a budget of 0 taken as a budget
PostNmsTop_ZeroCuts(keep, post_nms_topN) ==
    IF post_nms_topN >= 0 THEN Prefix(keep, post_nms_topN) ELSE keep

\* lines 155-156
PostNmsTop(keep, post_nms_topN) ==
    IF post_nms_topN > 0 THEN Prefix(keep, post_nms_topN) ELSE keep

\* every proposal, suppressed or not
SelectKept_All(proposal, keep) == proposal

\* line 157: proposal[keep]
SelectKept(proposal, keep) == Take(proposal, keep)

\* lines 162-163: np.hstack((batch_ind, proposal)) with batch_ind all zero
Roi(proposal) ==
    [i \in 1..Len(proposal) |->
        <<0, proposal[i][1], proposal[i][2], proposal[i][3], proposal[i][4]>>]


\* --------------------------------------------------------------- state
VARIABLES
    self,            \* the object's attributes, set by __init__ (lines 51-57)
    cuda_available,  \* cuda.available
    rpn_bbox_pred, rpn_cls_prob, anchor, img_size, scale, train,  \* arguments
    pc,              \* position of the call
    raised,          \* the exception the call ended with, or "none"
    pre_nms_topN, post_nms_topN,
    bbox_deltas,     \* (R, 4) rows after line 112
    score,           \* the flat scores, as filtered and ranked so far
    proposal,        \* the boxes, as clipped, filtered and ranked so far
    size_keep,       \* keep of line 129
    order,           \* order of lines 135-137
    nms_keep,        \* keep as non_maximum_suppression returned it (lines 145-154)
    keep,            \* keep after line 156
    nms_path,        \* "gpu" or "cpu": the branch of line 144 taken
    roi              \* the returned array, <<>> before the return

vars == <<self, cuda_available, rpn_bbox_pred, rpn_cls_prob, anchor, img_size,
          scale, train, pc, raised, pre_nms_topN, post_nms_topN, bbox_deltas,
          score, proposal, size_keep, order, nms_keep, keep, nms_path, roi>>

\* ---------------------------------------------------------- __init__
\* the default arguments of __init__ (lines 44-50); 0.7 is 7/10
Default ==
    [use_gpu_nms |-> TRUE,
     rpn_nms_thresh |-> <<7, 10>>,
     train_rpn_pre_nms_top_n |-> 12000,
     train_rpn_post_nms_top_n |-> 2000,
     test_rpn_pre_nms_top_n |-> 6000,
     test_rpn_post_nms_top_n |-> 300,
     rpn_min_size |-> 16]

ThreshVals == {<<2, 5>>, <<1, 1>>, <<3, 2>>}

BudgetVals == {-1, 0, 1, 2}

MinSizeVals == {-16, 0, 32}

\* the objects constructed: the defaults with at most one argument given
SizeConfigs == {Default} \cup {[Default EXCEPT !.rpn_min_size = m] : m \in MinSizeVals}

ThreshConfigs == {[Default EXCEPT !.rpn_nms_thresh = t] : t \in ThreshVals}

TrainBudgetConfigs ==
    {[Default EXCEPT !.train_rpn_pre_nms_top_n = n] : n \in BudgetVals}
    \cup {[Default EXCEPT !.train_rpn_post_nms_top_n = n] : n \in BudgetVals}

TestBudgetConfigs ==
    {[Default EXCEPT !.test_rpn_pre_nms_top_n = n] : n \in BudgetVals}
    \cup {[Default EXCEPT !.test_rpn_post_nms_top_n = n] : n \in BudgetVals}

DeviceConfigs == {Default, [Default EXCEPT !.use_gpu_nms = FALSE]}

\* ------------------------------------------------------------- inputs
\* anchors: a square one and one with its corners exchanged
AnchorVals == {<<0, 0, 32, 32>>, <<48, 32, 16, 16>>}

\* deltas (dx, dy, dw, dh): none; width doubled and height halved; moved out
\* of the image and height halved
DeltaVals == {<<0, 0, 0, 0>>, <<0, 0, 1, -1>>, <<2, 1, 0, -1>>}

\* foreground probabilities in thirds; the background one is the complement
ScoreVals == {1, 2}

Background(s) == 3 - s

ImgSizes == {<<64, 48>>}

ScaleVals == {1, 2}

\* R co-indexed rows of anchor, delta and score
Rows(R) == [1..R -> AnchorVals \X DeltaVals \X ScoreVals]

PlainRows(R) == [1..R -> {<<0, 0, 32, 32>>} \X {<<0, 0, 0, 0>>, <<0, 0, 1, -1>>} \X ScoreVals]

RECURSIVE Flatten(_)
Flatten(ss) == IF ss = <<>> THEN <<>> ELSE Head(ss) \o Flatten(Tail(ss))

RECURSIVE Repeat(_, _)
Repeat(s, n) == IF n <= 0 THEN <<>> ELSE s \o Repeat(s, n - 1)

\* the (n, 4A, 1, 1) delta map of a one-cell feature map whose rows are rows
DeltaMap(rows, n) ==
    [shape |-> <<n, 4 * Len(rows), 1, 1>>,
     data  |-> Repeat(Flatten([i \in 1..Len(rows) |-> rows[i][2]]), n)]

\* the (n, 2A + extra, 1, 1) score map: A background channels, A foreground
\* channels, and extra further channels
ScoreMap(rows, n, extra) ==
    [shape |-> <<n, 2 * Len(rows) + extra, 1, 1>>,
     data  |-> Repeat([i \in 1..Len(rows) |-> Background(rows[i][3])]
                      \o [i \in 1..Len(rows) |-> rows[i][3]]
                      \o [i \in 1..extra |-> 0], n)]

\* an array of the given shape, 1 at flat offset hot - 1 and 0 elsewhere
OneHot(shape, hot) ==
    [shape |-> shape, data |-> [k \in 1..Size(shape) |-> IF k = hot THEN 1 ELSE 0]]

Locals ==
    /\ pc = "start"
    /\ raised = "none"
    /\ pre_nms_topN = 0
    /\ post_nms_topN = 0
    /\ bbox_deltas = <<>>
    /\ score = <<>>
    /\ proposal = <<>>
    /\ size_keep = <<>>
    /\ order = <<>>
    /\ nms_keep = <<>>
    /\ keep = <<>>
    /\ nms_path = "none"
    /\ roi = <<>>

\* a well-formed call on any rows: any minimum size at any scale, any
\* threshold, any budget of the mode of the call
InitPipeline ==
    /\ \/ self \in SizeConfigs /\ train = FALSE /\ scale \in ScaleVals
       \/ self \in ThreshConfigs /\ train = FALSE /\ scale = 1
       \/ self \in TestBudgetConfigs /\ train = FALSE /\ scale = 1
       \/ self \in TrainBudgetConfigs /\ train = TRUE /\ scale = 1
    /\ cuda_available = TRUE
    /\ img_size \in ImgSizes
    /\ \E R \in 0..MaxR : \E rows \in Rows(R) :
          /\ anchor = [i \in 1..R |-> rows[i][1]]
          /\ rpn_bbox_pred = DeltaMap(rows, 1)
          /\ rpn_cls_prob = ScoreMap(rows, 1, 0)
    /\ Locals

\* any batch sizes, an even or odd number of score channels, with or without
\* a device
InitShapes ==
    /\ self \in DeviceConfigs
    /\ cuda_available \in BOOLEAN
    /\ train = FALSE
    /\ scale = 1
    /\ img_size \in ImgSizes
    /\ \E R \in 0..MaxR : \E rows \in PlainRows(R) :
       \E n_pred, n_prob \in 0..MaxBatch : \E extra \in {0, 1} :
          /\ anchor = [i \in 1..R |-> rows[i][1]]
          /\ rpn_bbox_pred = DeltaMap(rows, n_pred)
          /\ rpn_cls_prob = ScoreMap(rows, n_prob, extra)
    /\ Locals

Init == InitPipeline \/ InitShapes

\* any feature map of A anchor shapes on H x W cells, a single 1 in each map
InitRealign ==
    /\ self = Default
    /\ cuda_available = TRUE
    /\ train = FALSE
    /\ scale = 1
    /\ img_size \in ImgSizes
    /\ anchor = <<>>
    /\ \E A \in 1..MaxA : \E H \in 1..MaxH : \E W \in 1..MaxW :
          /\ rpn_bbox_pred \in {OneHot(<<1, 4 * A, H, W>>, hot) : hot \in 1..(4 * A * H * W)}
          /\ rpn_cls_prob \in {OneHot(<<1, 2 * A, H, W>>, hot) : hot \in 1..(2 * A * H * W)}
    /\ Locals

\* ------------------------------------------------------------ __call__
inputs == <<self, cuda_available, rpn_bbox_pred, rpn_cls_prob, anchor, img_size, scale, train>>

\* lines 93-103: the budgets of the mode, then the batch size check
CheckBatch ==
    /\ pc = "start"
    /\ pre_nms_topN' = SelectPreNmsTopN(self, train)
    /\ post_nms_topN' = SelectPostNmsTopN(self, train)
    /\ IF BatchSizeIsOne(rpn_bbox_pred, rpn_cls_prob)
       THEN pc' = "realign" /\ raised' = "none"
       ELSE pc' = "raised" /\ raised' = "ValueError: Only batchsize 1 is supported"
    /\ UNCHANGED <<inputs, bbox_deltas, score, proposal, size_keep, order, nms_keep, keep, nms_path, roi>>

\* lines 105-113: the foreground half of the score channels, and both maps
\* brought to one row per anchor
Realign ==
    /\ pc = "realign"
    /\ bbox_deltas' = RealignDeltas(rpn_bbox_pred)
    /\ score' = RealignScore(ForegroundScore(rpn_cls_prob))
    /\ pc' = "decode"
    /\ UNCHANGED <<inputs, raised, pre_nms_topN, post_nms_topN, proposal, size_keep, order, nms_keep, keep, nms_path, roi>>

\* line 117
Decode ==
    /\ pc = "decode"
    /\ proposal' = bbox_regression_target_inv(anchor, bbox_deltas)
    /\ pc' = "clip"
    /\ UNCHANGED <<inputs, raised, pre_nms_topN, post_nms_topN, bbox_deltas, score, size_keep, order, nms_keep, keep, nms_path, roi>>

\* lines 119-131: clip to the image, then drop the boxes that are too small
ClipAndFilter ==
    /\ pc = "clip"
    /\ LET clipped == ClipAll(proposal, img_size)
           k == SizeKeep(clipped, MinSize(self, scale))
       IN  /\ size_keep' = k
           /\ proposal' = Take(clipped, k)
           /\ score' = Take(score, k)
    /\ pc' = "rank"
    /\ UNCHANGED <<inputs, raised, pre_nms_topN, post_nms_topN, bbox_deltas, order, nms_keep, keep, nms_path, roi>>

\* lines 133-139: descending by score, cut to the budget before suppression
Rank ==
    /\ pc = "rank"
    /\ \E p \in Argsort(score) :
          LET o == PreNmsTop(DescendingOrder(p), pre_nms_topN)
          IN  /\ order' = o
              /\ proposal' = Take(proposal, o)
              /\ score' = Take(score, o)
    /\ pc' = "nms"
    /\ UNCHANGED <<inputs, raised, pre_nms_topN, post_nms_topN, bbox_deltas, size_keep, nms_keep, keep, nms_path, roi>>

\* lines 141-154: suppression, on the device when asked for and available
Suppress ==
    /\ pc = "nms"
    /\ nms_path' = IF TakesGpuPath(self, cuda_available) THEN "gpu" ELSE "cpu"
    /\ nms_keep' \in non_maximum_suppression(proposal, self.rpn_nms_thresh, score)
    /\ keep' = nms_keep'
    /\ pc' = "output"
    /\ UNCHANGED <<inputs, raised, pre_nms_topN, post_nms_topN, bbox_deltas, score, proposal, size_keep, order, roi>>

\* lines 155-168: cut to the budget after suppression, and the roi array
Output ==
    /\ pc = "output"
    /\ LET k == PostNmsTop(keep, post_nms_topN)
       IN  /\ keep' = k
           /\ proposal' = SelectKept(proposal, k)
           /\ roi' = Roi(SelectKept(proposal, k))
    /\ pc' = "done"
    /\ UNCHANGED <<inputs, raised, pre_nms_topN, post_nms_topN, bbox_deltas, score, size_keep, order, nms_keep, nms_path>>

Next == CheckBatch \/ Realign \/ Decode \/ ClipAndFilter \/ Rank \/ Suppress \/ Output

Spec == Init /\ [][Next]_vars

NextRealign == CheckBatch \/ Realign

SpecRealign == InitRealign /\ [][NextRealign]_vars


\* ------------------------------------------------------------- claims
\* What the claims speak of, read off the arguments rather than off the
\* locals of the call.
PostBudget ==
    IF train THEN self.train_rpn_post_nms_top_n ELSE self.test_rpn_post_nms_top_n

PreBudget ==
    IF train THEN self.train_rpn_pre_nms_top_n ELSE self.test_rpn_pre_nms_top_n

MinSide == self.rpn_min_size * scale

ImageWidth == img_size[1]

ImageHeight == img_size[2]

\* A anchor shapes on H x W cells, after the delta map
NumShapes == rpn_bbox_pred.shape[2] \div 4

NumRows == rpn_bbox_pred.shape[3]

NumCols == rpn_bbox_pred.shape[4]

NumAnchors == NumShapes * NumRows * NumCols

\* the delta and the foreground score of anchor shape a at cell (h, w)
DeltaAt(a, h, w) ==
    <<At(rpn_bbox_pred, 0, 4 * a, h, w), At(rpn_bbox_pred, 0, 4 * a + 1, h, w),
      At(rpn_bbox_pred, 0, 4 * a + 2, h, w), At(rpn_bbox_pred, 0, 4 * a + 3, h, w)>>

ForegroundAt(a, h, w) == At(rpn_cls_prob, 0, NumShapes + a, h, w)

\* candidate r (1-based): the shape and the cell it stands for, cells row by
\* row and the shapes of one cell next to each other
ShapeOf(r) == (r - 1) % NumShapes

RowOf(r) == (r - 1) \div (NumShapes * NumCols)

ColOf(r) == ((r - 1) \div NumShapes) % NumCols

CandidateDelta(r) == DeltaAt(ShapeOf(r), RowOf(r), ColOf(r))

CandidateScore(r) == ForegroundAt(ShapeOf(r), RowOf(r), ColOf(r))

CandidateDecoded(r) == DecodeBox(anchor[r], CandidateDelta(r))

ClipTo(v, hi) == IF v < 0 THEN 0 ELSE IF v > hi THEN hi ELSE v

\* the decoded box of candidate r, each coordinate clipped on its own
CandidateClipped(r) ==
    LET b == CandidateDecoded(r)
    IN  <<ClipTo(b[1], ImageWidth), ClipTo(b[2], ImageHeight),
          ClipTo(b[3], ImageWidth), ClipTo(b[4], ImageHeight)>>

Width(b) == b[3] - b[1]

Height(b) == b[4] - b[2]

LargeEnough(b) == Width(b) >= MinSide /\ Height(b) >= MinSide

\* the candidates that pass the size filter
Survivors == {r \in 1..NumAnchors : LargeEnough(CandidateClipped(r))}

Filtered == pc \in {"rank", "nms", "output", "done"}

Ranked == pc \in {"nms", "output", "done"}

\* the candidate at position k of the ranked, truncated sequence
RankedCandidate(k) == size_keep[order[k]]

RoiBox(k) == <<roi[k][2], roi[k][3], roi[k][4], roi[k][5]>>

\* intersection over union < t; the ratio of two boxes of empty union, which
\* share nothing, counts as 0
IoUBelow(a, b, t) ==
    LET i == Intersection(a, b)
        u == Area(a) + Area(b) - i
    IN  IF u = 0 THEN 0 < t[1] ELSE i * t[2] < t[1] * u

\* C1 (as claimed): the number of RoI records returned is min(|keep|,
\* post_budget), keep the suppressor's result and post_budget the budget of the
\* mode, whatever the budget's sign.
C1_Original ==
    pc = "done" => Len(roi) = Min(Len(nms_keep), PostBudget)

\* C1 (amended): the number of RoI records returned is min(|keep|, post_budget)
\* when the post budget of the mode is positive, and |keep| when it is zero or
\* negative; so the output length exceeds no positive post budget.
C1_OutputLength ==
    pc = "done" =>
        /\ Len(roi) = IF PostBudget > 0 THEN Min(Len(nms_keep), PostBudget)
                      ELSE Len(nms_keep)
        /\ PostBudget > 0 => Len(roi) <= PostBudget

C1_Witness ==
    /\ pc = "done"
    /\ PostBudget > 0
    /\ Len(nms_keep) > PostBudget
    /\ Len(roi) = PostBudget

\* C2: any two distinct records returned hold boxes whose intersection over
\* union is strictly below rpn_nms_thresh.
C2_PairwiseBelowThreshold ==
    pc = "done" =>
        \A i, j \in 1..Len(roi) :
            i # j => IoUBelow(RoiBox(i), RoiBox(j), self.rpn_nms_thresh)

\* a call that returns one of two overlapping candidates, or after the
\* truncation to the post budget
C2_Witness ==
    /\ pc = "done"
    /\ Len(order) = 2
    /\ Len(nms_keep) = 1
    /\ Len(roi) = 1
    /\ Intersection(CandidateClipped(RankedCandidate(1)),
                    CandidateClipped(RankedCandidate(2))) > 0

\* C3: with more than one image in either map the call ends with the batch
\* size error before anything is realigned, decoded, filtered or suppressed, and
\* returns nothing; with exactly one image in both, that error is not raised.
C3_BatchSize ==
    /\ (rpn_bbox_pred.shape[1] > 1 \/ rpn_cls_prob.shape[1] > 1) =>
          /\ pc \in {"start", "raised"}
          /\ pc = "raised" => raised = "ValueError: Only batchsize 1 is supported"
          /\ bbox_deltas = <<>> /\ score = <<>> /\ proposal = <<>>
          /\ size_keep = <<>> /\ order = <<>> /\ nms_keep = <<>>
          /\ nms_path = "none" /\ roi = <<>>
    /\ (rpn_bbox_pred.shape[1] = 1 /\ rpn_cls_prob.shape[1] = 1) =>
          pc # "raised" /\ raised = "none"

C3_Witness ==
    /\ pc = "raised"
    /\ rpn_bbox_pred.shape[1] = 1
    /\ rpn_cls_prob.shape[1] = 2
    /\ Len(anchor) > 0

\* C4, the part that holds: candidate r reaches the ranking step iff its
\* clipped box has width and height >= min_side; the survivors reach it in
\* index order, clipped, each with its own score.
C4_KeptIffLargeEnough ==
    Filtered =>
        /\ Range(size_keep) = Survivors
        /\ \A j \in 1..(Len(size_keep) - 1) : size_keep[j] < size_keep[j + 1]
        /\ pc = "rank" =>
              /\ Len(proposal) = Len(size_keep) /\ Len(score) = Len(size_keep)
              /\ \A j \in 1..Len(size_keep) :
                    /\ proposal[j] = CandidateClipped(size_keep[j])
                    /\ score[j] = CandidateScore(size_keep[j])

NegativeSide(b) == Width(b) < 0 \/ Height(b) < 0

\* C4 (as claimed): the above, and a box of negative width or height is
\* always discarded.
C4_Original ==
    /\ C4_KeptIffLargeEnough
    /\ Filtered =>
          \A r \in 1..NumAnchors :
              NegativeSide(CandidateClipped(r)) => r \notin Range(size_keep)

\* C4 (amended): the above, and a box of negative width or height is
\* discarded whenever min_side >= 0.
C4_SizeFilter ==
    /\ C4_KeptIffLargeEnough
    /\ (Filtered /\ MinSide >= 0) =>
          \A r \in 1..NumAnchors :
              NegativeSide(CandidateClipped(r)) => r \notin Range(size_keep)

\* a box kept with a side of exactly min_side, and one discarded that was
\* large enough before the clip
C4_Witness ==
    /\ pc = "rank"
    /\ MinSide >= 0
    /\ \E r \in Range(size_keep) : Height(CandidateClipped(r)) = MinSide
    /\ \E r \in 1..NumAnchors :
          /\ r \notin Range(size_keep)
          /\ Width(CandidateDecoded(r)) >= MinSide
          /\ Height(CandidateDecoded(r)) >= MinSide


\* C5: the candidates handed to the suppressor are in non-increasing order of
\* score, each box with its own score; they are min(pre_budget, n) of the n
\* survivors when the pre budget of the mode is positive and all n otherwise;
\* and no survivor left out scores strictly higher than one handed over.
C5_RankedAndTruncated ==
    Ranked =>
        /\ \A k \in 1..(Len(order) - 1) :
              CandidateScore(RankedCandidate(k)) >= CandidateScore(RankedCandidate(k + 1))
        /\ \A k, l \in 1..Len(order) : k # l => order[k] # order[l]
        /\ \A k \in 1..Len(order) : order[k] \in 1..Len(size_keep)
        /\ Len(order) = IF PreBudget > 0 THEN Min(PreBudget, Len(size_keep))
                        ELSE Len(size_keep)
        /\ \A j \in 1..Len(size_keep) : \A k \in 1..Len(order) :
              j \notin Range(order) =>
                  CandidateScore(size_keep[j]) <= CandidateScore(RankedCandidate(k))
        /\ pc = "nms" =>
              /\ Len(proposal) = Len(order) /\ Len(score) = Len(order)
              /\ \A k \in 1..Len(order) :
                    /\ proposal[k] = CandidateClipped(RankedCandidate(k))
                    /\ score[k] = CandidateScore(RankedCandidate(k))
              /\ \A k \in 1..(Len(score) - 1) : score[k] >= score[k + 1]

\* two survivors of different score, of which the pre budget lets one through
C5_Witness ==
    /\ pc = "nms"
    /\ PreBudget = 1
    /\ Len(size_keep) = 2
    /\ CandidateScore(size_keep[1]) < CandidateScore(size_keep[2])
    /\ Len(score) = 1

MaxScore(rs) == CHOOSE m \in {CandidateScore(r) : r \in rs} :
                    \A r \in rs : CandidateScore(r) <= m

BudgetsPositive == PreBudget > 0 /\ PostBudget > 0

\* with a survivor and both budgets positive, the first record is the box of
\* a survivor of the highest score
C6_FirstIsHighest ==
    (pc = "done" /\ Survivors # {} /\ BudgetsPositive) =>
        /\ Len(roi) >= 1
        /\ roi[1][1] = 0
        /\ \E r \in Survivors :
              /\ CandidateScore(r) = MaxScore(Survivors)
              /\ RoiBox(1) = CandidateClipped(r)

AllSameBox(rs) == \A r, q \in rs : CandidateClipped(r) = CandidateClipped(q)

ThresholdAtMostOne == self.rpn_nms_thresh[1] <= self.rpn_nms_thresh[2]

\* C6 (as claimed): the first record is the box of the highest scoring
\* survivor; and when all survivors decode to the same box and the threshold is
\* at most 1, exactly one record is returned.
C6_Original ==
    /\ C6_FirstIsHighest
    /\ (pc = "done" /\ Survivors # {} /\ BudgetsPositive
        /\ AllSameBox(Survivors) /\ ThresholdAtMostOne) => Len(roi) = 1

PositiveArea(b) == Width(b) > 0 /\ Height(b) > 0

\* C6 (amended): the same, the second part for survivors that decode to the
\* same box of positive area.
C6_HighestFirst ==
    /\ C6_FirstIsHighest
    /\ (pc = "done" /\ Survivors # {} /\ BudgetsPositive
        /\ AllSameBox(Survivors) /\ ThresholdAtMostOne
        /\ \A r \in Survivors : PositiveArea(CandidateClipped(r))) => Len(roi) = 1

\* two survivors of different score on one box: one record, the higher one's
C6_Witness ==
    /\ pc = "done"
    /\ BudgetsPositive
    /\ ThresholdAtMostOne
    /\ Survivors = {1, 2}
    /\ AllSameBox(Survivors)
    /\ PositiveArea(CandidateClipped(1))
    /\ CandidateScore(1) < CandidateScore(2)
    /\ Len(roi) = 1
    /\ RankedCandidate(keep[1]) = 2

\* the score map has an odd number of channels, or the anchors are not one
\* per anchor shape and cell
Malformed ==
    \/ rpn_cls_prob.shape[2] % 2 = 1
    \/ rpn_cls_prob.shape[2] \div 2 # NumShapes
    \/ Len(anchor) # NumAnchors

\* C7 (as claimed): a call on one image with shape-inconsistent inputs never
\* goes on to return proposals; if it ends, it ends with a MalformedInput error.
C7_Claim ==
    (Malformed /\ rpn_bbox_pred.shape[1] = 1 /\ rpn_cls_prob.shape[1] = 1) =>
        /\ ~(pc = "done" /\ Len(roi) > 0)
        /\ pc = "raised" => raised = "MalformedInput"

\* C8 (as claimed): with use_gpu_nms set and no device the call does not
\* return and never takes the path without the device; that path is taken only
\* when use_gpu_nms is not set.
C8_Original ==
    /\ (self.use_gpu_nms /\ ~cuda_available) => (pc # "done" /\ nms_path # "cpu")
    /\ nms_path = "cpu" => ~self.use_gpu_nms

\* C8 (amended): with use_gpu_nms set and no device the suppression falls
\* back to the path without the device and the call returns; that path is taken
\* exactly when use_gpu_nms is not set or no device is available.
C8_FallsBack ==
    /\ pc \in {"output", "done"} =>
          /\ nms_path = "cpu" <=> (~self.use_gpu_nms \/ ~cuda_available)
          /\ nms_path = "gpu" <=> (self.use_gpu_nms /\ cuda_available)
    /\ pc \notin {"output", "done"} => nms_path = "none"
    /\ (self.use_gpu_nms /\ ~cuda_available
        /\ rpn_bbox_pred.shape[1] = 1 /\ rpn_cls_prob.shape[1] = 1) =>
          pc # "raised" /\ raised = "none"

C8_Witness ==
    /\ pc = "done"
    /\ self.use_gpu_nms
    /\ ~cuda_available
    /\ nms_path = "cpu"
    /\ Len(roi) > 0

\* the score and the delta at flat position r are those of anchor shape a at
\* cell (h, w)
AlignedAt(r, a, h, w) ==
    /\ score[r] = ForegroundAt(a, h, w)
    /\ bbox_deltas[r] = DeltaAt(a, h, w)

Realigned == pc = "decode"

\* C9 (as claimed): score and delta are co-indexed, and the flat order is the
\* nested (anchor shape, row, column) order: position a*H*W + h*W + w.
C9_Original ==
    Realigned =>
        /\ Len(score) = NumAnchors /\ Len(bbox_deltas) = NumAnchors
        /\ \A a \in 0..(NumShapes - 1) : \A h \in 0..(NumRows - 1) :
           \A w \in 0..(NumCols - 1) :
              AlignedAt((a * NumRows + h) * NumCols + w + 1, a, h, w)

\* C9 (amended): score and delta are co-indexed, and the flat order is the
\* nested (row, column, anchor shape) order: position (h*W + w)*A + a.
C9_Realigned ==
    Realigned =>
        /\ Len(score) = NumAnchors /\ Len(bbox_deltas) = NumAnchors
        /\ \A a \in 0..(NumShapes - 1) : \A h \in 0..(NumRows - 1) :
           \A w \in 0..(NumCols - 1) :
              AlignedAt((h * NumCols + w) * NumShapes + a + 1, a, h, w)

\* two shapes on two rows and two columns; the foreground score of shape 1 at
\* cell (0, 0) and the last delta component of shape 0 at cell (1, 0) are set
C9_Witness ==
    /\ Realigned
    /\ NumShapes = 2 /\ NumRows = 2 /\ NumCols = 2
    /\ ForegroundAt(1, 0, 0) = 1
    /\ score[2] = 1
    /\ DeltaAt(0, 1, 0)[4] = 1
    /\ bbox_deltas[5][4] = 1

\* the candidate record k of the output stands for
Origin(k) == size_keep[order[keep[k]]]

\* C10: every record returned has batch index 0 and the clipped decoding of
\* one anchor that passed the size filter, the pre truncation and the
\* suppression, inside the image; no candidate is returned twice; there are at
\* most as many records as survivors; no anchors give no records and no error.
C10_RecordsAreSurvivors ==
    /\ pc = "done" =>
          /\ Len(keep) = Len(roi)
          /\ Range(keep) \subseteq Range(nms_keep)
          /\ Range(nms_keep) \subseteq 1..Len(order)
          /\ \A k \in 1..Len(roi) :
                /\ roi[k][1] = 0
                /\ Origin(k) \in Survivors
                /\ RoiBox(k) = CandidateClipped(Origin(k))
                /\ proposal[k] = RoiBox(k)
                /\ 0 <= roi[k][2] /\ roi[k][2] <= ImageWidth
                /\ 0 <= roi[k][4] /\ roi[k][4] <= ImageWidth
                /\ 0 <= roi[k][3] /\ roi[k][3] <= ImageHeight
                /\ 0 <= roi[k][5] /\ roi[k][5] <= ImageHeight
                /\ Width(RoiBox(k)) >= MinSide /\ Height(RoiBox(k)) >= MinSide
                /\ MinSide >= 0 => (roi[k][2] <= roi[k][4] /\ roi[k][3] <= roi[k][5])
          /\ \A k, l \in 1..Len(roi) : k # l => Origin(k) # Origin(l)
          /\ Len(roi) <= Cardinality(Survivors)
    /\ (NumAnchors = 0 /\ Len(anchor) = 0
        /\ rpn_bbox_pred.shape[1] = 1 /\ rpn_cls_prob.shape[1] = 1) =>
          pc # "raised" /\ roi = <<>>

\* two records, one of a box the clip has changed
C10_Witness ==
    /\ pc = "done"
    /\ Len(roi) = 2
    /\ \E k \in 1..2 : RoiBox(k) # CandidateDecoded(Origin(k))

=============================================================================
